---- MODULE Spec2Model ----
(***************************************************************************)
(* sugiru: lexer, Pratt parser and tree-walking evaluator.                 *)
(*                                                                         *)
(* Strings are sequences of byte values (Go strings are byte sequences),   *)
(* so that the lexer's byte comparisons, slicing and the parser's integer  *)
(* conversion are computed as the code computes them.                      *)
(***************************************************************************)
EXTENDS Integers, Sequences, FiniteSets, TLC

VARIABLES
    lexer,       \* lexer.Lexer: [input, position, readPosition, ch]
    tokens,      \* the tokens NextToken has returned so far, in order
    toks,        \* the token stream the parser's lexer delivers (before EOF)
    parser,      \* parser.Parser: [curToken, peekToken, idx, errors, tables]
    statements,  \* Program.Statements of the program being built
    pending,     \* statement under construction inside a skipping loop
    pc,          \* position of the running function
    evCall,      \* the evaluator call made: [fn, op, args] or node
    evResult     \* what the evaluator call returned

vars == <<lexer, tokens, toks, parser, statements, pending, pc, evCall, evResult>>

-----------------------------------------------------------------------------
(* Bounds of the model *)

\* longest source string handed to lexer.New
MaxSrcLen == 3
\* NextToken calls made after the input is exhausted
ExtraCalls == 2

-----------------------------------------------------------------------------
(* package token (types and keyword table) *)

token_ILLEGAL   == "ILLEGAL"
token_EOF       == "EOF"
token_IDENT     == "IDENT"
token_INT       == "INT"
token_ASSIGN    == "="
token_PLUS      == "+"
token_MINUS     == "-"
token_BANG      == "!"
token_ASTERISK  == "*"
token_SLASH     == "/"
token_LT        == "<"
token_GT        == ">"
token_EQ        == "=="
token_NOT_EQ    == "!="
token_COMMA     == ","
token_SEMICOLON == ";"
token_LPAREN    == "("
token_RPAREN    == ")"
token_LBRACE    == "{"
token_RBRACE    == "}"
token_FUNCTION  == "FUNCTION"
token_LET       == "LET"
token_TRUE      == "TRUE"
token_FALSE     == "FALSE"
token_IF        == "IF"
token_ELSE      == "ELSE"
token_RETURN    == "RETURN"

\* token.Token{Type, Literal}
Token(type, literal) == [Type |-> type, Literal |-> literal]

\* the zero value of token.Token (var tok token.Token)
ZeroToken == Token("", <<>>)

\* string literals of the sources, as byte sequences
STR_fn     == <<102, 110>>
STR_let    == <<108, 101, 116>>
STR_true   == <<116, 114, 117, 101>>
STR_false  == <<102, 97, 108, 115, 101>>
STR_if     == <<105, 102>>
STR_else   == <<101, 108, 115, 101>>
STR_return == <<114, 101, 116, 117, 114, 110>>

\* token.LookupIdent: the keyword table, IDENT for every other name
LookupIdent(ident) ==
    CASE ident = STR_fn     -> token_FUNCTION
      [] ident = STR_let    -> token_LET
      [] ident = STR_true   -> token_TRUE
      [] ident = STR_false  -> token_FALSE
      [] ident = STR_if     -> token_IF
      [] ident = STR_else   -> token_ELSE
      [] ident = STR_return -> token_RETURN
      [] OTHER              -> token_IDENT

\* the text %s prints for a token.TokenType (a Go string)
TypeText(type) ==
    CASE type = token_ILLEGAL   -> <<73, 76, 76, 69, 71, 65, 76>>
      [] type = token_EOF       -> <<69, 79, 70>>
      [] type = token_IDENT     -> <<73, 68, 69, 78, 84>>
      [] type = token_INT       -> <<73, 78, 84>>
      [] type = token_ASSIGN    -> <<61>>
      [] type = token_PLUS      -> <<43>>
      [] type = token_MINUS     -> <<45>>
      [] type = token_BANG      -> <<33>>
      [] type = token_ASTERISK  -> <<42>>
      [] type = token_SLASH     -> <<47>>
      [] type = token_LT        -> <<60>>
      [] type = token_GT        -> <<62>>
      [] type = token_EQ        -> <<61, 61>>
      [] type = token_NOT_EQ    -> <<33, 61>>
      [] type = token_COMMA     -> <<44>>
      [] type = token_SEMICOLON -> <<59>>
      [] type = token_LPAREN    -> <<40>>
      [] type = token_RPAREN    -> <<41>>
      [] type = token_LBRACE    -> <<123>>
      [] type = token_RBRACE    -> <<125>>
      [] type = token_FUNCTION  -> <<70, 85, 78, 67, 84, 73, 79, 78>>
      [] type = token_LET       -> <<76, 69, 84>>
      [] type = token_TRUE      -> <<84, 82, 85, 69>>
      [] type = token_FALSE     -> <<70, 65, 76, 83, 69>>
      [] type = token_IF        -> <<73, 70>>
      [] type = token_ELSE      -> <<69, 76, 83, 69>>
      [] type = token_RETURN    -> <<82, 69, 84, 85, 82, 78>>
      [] OTHER                  -> <<>>

-----------------------------------------------------------------------------
(* package lexer: src/sugiru/lexer/lexer.go *)

\* len(l.input)
len(s) == Len(s)

\* l.input[lo:hi] with Go's zero-based half-open bounds
Slice(s, lo, hi) == SubSeq(s, lo + 1, hi)

\* func (l *Lexer) readChar()
readChar(l) ==
    [l EXCEPT !.ch = IF l.readPosition >= len(l.input)
                     THEN 0
                     ELSE l.input[l.readPosition + 1],
              !.position = l.readPosition,
              !.readPosition = l.readPosition + 1]

\* func New(input string) *Lexer
New(input) ==
    readChar([input |-> input, position |-> 0, readPosition |-> 0, ch |-> 0])

\* func newToken(tokenType, ch) token.Token
newToken(tokenType, ch) == Token(tokenType, <<ch>>)

\* func isLetter(ch byte) bool
isLetter(ch) == (97 <= ch /\ ch <= 122) \/ (65 <= ch /\ ch <= 90) \/ ch = 95

\* func isDigit(ch byte) bool
isDigit(ch) == 48 <= ch /\ ch <= 57

\* fromPosToCurrent leaving out the first byte of the lexeme
fromPosToCurrent_short(l, position) == Slice(l.input, position + 1, l.position)

\* func (l *Lexer) fromPosToCurrent(position int) string
fromPosToCurrent(l, position) == Slice(l.input, position, l.position)

RECURSIVE skipWhiteSpace(_)
\* func (l *Lexer) skipWhiteSpace(): the lexer after the loop
skipWhiteSpace(l) ==
    IF l.ch \in {32, 9, 10, 13}
    THEN skipWhiteSpace(readChar(l))
    ELSE l

RECURSIVE readWhileLetter(_)
\* the loop of readIdentifier: for isLetter(l.ch) { l.readChar() }
readWhileLetter(l) ==
    IF isLetter(l.ch) THEN readWhileLetter(readChar(l)) ELSE l

\* the loop of readNumber leaving after its first iteration
readWhileDigit_oneDigit(l) == IF isDigit(l.ch) THEN readChar(l) ELSE l

RECURSIVE readWhileDigit(_)
\* the loop of readNumber: for isDigit(l.ch) { l.readChar() }
readWhileDigit(l) ==
    IF isDigit(l.ch) THEN readWhileDigit(readChar(l)) ELSE l

\* func (l *Lexer) readIdentifier() string: [l: lexer after, s: the string]
readIdentifier(l) ==
    LET l2 == readWhileLetter(l)
    IN  [l |-> l2, s |-> fromPosToCurrent(l2, l.position)]

\* func (l *Lexer) readNumber() string: [l: lexer after, s: the string]
readNumber(l) ==
    LET l2 == readWhileDigit(l)
    IN  [l |-> l2, s |-> fromPosToCurrent(l2, l.position)]

\* the single-byte cases of NextToken's switch: the token type, "" for none
singleByteType(ch) ==
    CASE ch = 61  -> token_ASSIGN      \* '='
      [] ch = 59  -> token_SEMICOLON   \* ';'
      [] ch = 40  -> token_LPAREN      \* '('
      [] ch = 41  -> token_RPAREN      \* ')'
      [] ch = 44  -> token_COMMA       \* ','
      [] ch = 43  -> token_PLUS        \* '+'
      [] ch = 123 -> token_LBRACE      \* '{'
      [] ch = 125 -> token_RBRACE      \* '}'
      [] OTHER    -> ""

\* func (l *Lexer) NextToken() token.Token: [l: lexer after, tok: the token]
NextToken(l0) ==
    LET l == skipWhiteSpace(l0)
    IN  IF singleByteType(l.ch) # ""
        THEN [l |-> readChar(l), tok |-> newToken(singleByteType(l.ch), l.ch)]
        ELSE IF l.ch = 0
        THEN [l |-> readChar(l), tok |-> Token(token_EOF, <<>>)]
        ELSE IF isLetter(l.ch)
        THEN LET r == readIdentifier(l)
             IN  [l |-> r.l, tok |-> Token(LookupIdent(r.s), r.s)]
        ELSE IF isDigit(l.ch)
        THEN LET r == readNumber(l)
             IN  [l |-> r.l, tok |-> Token(token_INT, r.s)]
        ELSE [l |-> readChar(l), tok |-> newToken(token_ILLEGAL, l.ch)]

-----------------------------------------------------------------------------
(* package ast: node constructors.  A nil interface value is NilNode; a nil  *)
(* pointer of a concrete node type stored in an interface is NilPtr(kind),   *)
(* which is a different value (Go's typed nil).                              *)

NilNode == [kind |-> "nil"]
NilPtr(kind) == [kind |-> kind, nilptr |-> TRUE]
IsNilPtr(node) == "nilptr" \in DOMAIN node

Program(stmts) == [kind |-> "Program", Statements |-> stmts]
LetStatement(tok, name, value) ==
    [kind |-> "LetStatement", Token |-> tok, Name |-> name, Value |-> value]
ReturnStatement(tok, value) ==
    [kind |-> "ReturnStatement", Token |-> tok, ReturnValue |-> value]
ExpressionStatement(tok, expr) ==
    [kind |-> "ExpressionStatement", Token |-> tok, Expression |-> expr]
BlockStatement(tok, stmts) ==
    [kind |-> "BlockStatement", Token |-> tok, Statements |-> stmts]
Identifier(tok) ==
    [kind |-> "Identifier", Token |-> tok, Value |-> tok.Literal]
IntegerLiteral(tok, value) ==
    [kind |-> "IntegerLiteral", Token |-> tok, Value |-> value]
Boolean(tok, value) ==
    [kind |-> "Boolean", Token |-> tok, Value |-> value]
PrefixExpression(tok, right) ==
    [kind |-> "PrefixExpression", Token |-> tok, Operator |-> tok.Literal,
     Right |-> right]
InfixExpression(tok, left, right) ==
    [kind |-> "InfixExpression", Token |-> tok, Operator |-> tok.Literal,
     Left |-> left, Right |-> right]
IfExpression(tok, cond, then, else) ==
    [kind |-> "IfExpression", Token |-> tok, Condition |-> cond,
     Then |-> then, Else |-> else]
FunctionLiteral(tok, params, body) ==
    [kind |-> "FunctionLiteral", Token |-> tok, Parameters |-> params,
     Body |-> body]
CallExpression(tok, function, args) ==
    [kind |-> "CallExpression", Token |-> tok, Function |-> function,
     Arguments |-> args]

-----------------------------------------------------------------------------
(* Machine integers: int64 scaled down to IntBits bits, two's complement *)

\* width of the model's machine integer
IntBits == 5

RECURSIVE Pow2(_)
Pow2(n) == IF n = 0 THEN 1 ELSE 2 * Pow2(n - 1)

MinInt == 0 - Pow2(IntBits - 1)
MaxInt == Pow2(IntBits - 1) - 1
Ints == MinInt..MaxInt

\* the value a two's-complement register of IntBits bits holds for x
Wrap(x) == ((x + Pow2(IntBits - 1)) % Pow2(IntBits)) - Pow2(IntBits - 1)

Abs(x) == IF x < 0 THEN 0 - x ELSE x

\* Go's integer quotient x / y (y # 0): truncated toward zero
Quo(x, y) ==
    IF (x < 0) = (y < 0)
    THEN Abs(x) \div Abs(y)
    ELSE 0 - (Abs(x) \div Abs(y))

-----------------------------------------------------------------------------
(* package object, and the evaluator's shared instances.  ref is the       *)
(* identity of the instance: the three shared ones, or a fresh allocation.  *)

INTEGER_OBJ == "INTEGER"
BOOLEAN_OBJ == "BOOLEAN"
NULL_OBJ    == "NULL"

\* &object.Integer{Value: v}
Integer(v) == [Type |-> INTEGER_OBJ, Value |-> v, ref |-> "new"]

NULL      == [Type |-> NULL_OBJ,    Value |-> 0, ref |-> "NULL"]
TRUE_OBJ  == [Type |-> BOOLEAN_OBJ, Value |-> 1, ref |-> "TRUE"]
FALSE_OBJ == [Type |-> BOOLEAN_OBJ, Value |-> 0, ref |-> "FALSE"]

\* a nil object.Object: what Eval returns for a node it has no case for
Absent == [Type |-> "nil", Value |-> 0, ref |-> "nil"]

\* a run-time panic of the host: the call does not return
Panic(what) == [Type |-> "panic", Value |-> 0, ref |-> what]
IsPanic(obj) == obj.Type = "panic"
NilDeref == Panic("nil pointer dereference")
DivideByZero == Panic("integer divide by zero")

-----------------------------------------------------------------------------
(* package evaluator: src/unnamed/part_000 *)

STR_PLUS     == <<43>>
STR_MINUS    == <<45>>
STR_SLASH    == <<47>>
STR_ASTERISK == <<42>>
STR_BANG     == <<33>>

\* func nativeBoolToBooleanObject(input bool) *object.Boolean
nativeBoolToBooleanObject(input) == IF input THEN TRUE_OBJ ELSE FALSE_OBJ

\* evalIntegerInfixExpression with the operands of the subtraction swapped
evalIntegerInfixExpression_swapped(operator, left, right) ==
    LET leftVal  == left.Value
        rightVal == right.Value
    IN  CASE operator = STR_PLUS     -> Integer(Wrap(leftVal + rightVal))
          [] operator = STR_MINUS    -> Integer(Wrap(rightVal - leftVal))
          [] operator = STR_SLASH    ->
                IF rightVal = 0 THEN DivideByZero
                ELSE Integer(Wrap(Quo(leftVal, rightVal)))
          [] operator = STR_ASTERISK -> Integer(Wrap(leftVal * rightVal))
          [] OTHER                   -> NULL

\* func evalIntegerInfixExpression(operator, left, right)
evalIntegerInfixExpression(operator, left, right) ==
    LET leftVal  == left.Value
        rightVal == right.Value
    IN  CASE operator = STR_PLUS     -> Integer(Wrap(leftVal + rightVal))
          [] operator = STR_MINUS    -> Integer(Wrap(leftVal - rightVal))
          [] operator = STR_SLASH    ->
                IF rightVal = 0 THEN DivideByZero
                ELSE Integer(Wrap(Quo(leftVal, rightVal)))
          [] operator = STR_ASTERISK -> Integer(Wrap(leftVal * rightVal))
          [] OTHER                   -> NULL

\* func evalInfixExpression(operator, left, right): left.Type() and
\* right.Type() are method calls on the interface values, and && does not
\* evaluate right.Type() unless left is an Integer
evalInfixExpression(operator, left, right) ==
    IF left = Absent THEN NilDeref
    ELSE IF left.Type # INTEGER_OBJ THEN NULL
    ELSE IF right = Absent THEN NilDeref
    ELSE IF right.Type # INTEGER_OBJ THEN NULL
    ELSE evalIntegerInfixExpression(operator, left, right)

\* func evalMinusPrefixOperatorExpression(right)
evalMinusPrefixOperatorExpression(right) ==
    IF right = Absent THEN NilDeref
    ELSE IF right.Type # INTEGER_OBJ THEN NULL
    ELSE Integer(Wrap(0 - right.Value))

\* evalBangOperatorExpression with the NULL case returning TRUE
evalBangOperatorExpression_nullTrue(right) ==
    CASE right.ref = "TRUE"  -> FALSE_OBJ
      [] right.ref = "FALSE" -> TRUE_OBJ
      [] right.ref = "NULL"  -> TRUE_OBJ
      [] OTHER               -> FALSE_OBJ

\* func evalBangOperatorExpression(right): the switch compares instances
evalBangOperatorExpression(right) ==
    CASE right.ref = "TRUE"  -> FALSE_OBJ
      [] right.ref = "FALSE" -> TRUE_OBJ
      [] right.ref = "NULL"  -> FALSE_OBJ
      [] OTHER               -> FALSE_OBJ

\* func evalPrefixExpression(operator, right)
evalPrefixExpression(operator, right) ==
    CASE operator = STR_BANG  -> evalBangOperatorExpression(right)
      [] operator = STR_MINUS -> evalMinusPrefixOperatorExpression(right)
      [] OTHER                -> NULL

RECURSIVE Eval(_)
RECURSIVE evalStatementsFrom(_, _, _)

\* the loop of evalStatements from statement i on, result being the value
\* of the statement before it
evalStatementsFrom(stmts, i, result) ==
    IF i > Len(stmts) THEN result
    ELSE LET r == Eval(stmts[i])
         IN  IF IsPanic(r) THEN r ELSE evalStatementsFrom(stmts, i + 1, r)

\* func evalStatements(statements []ast.Statement) object.Object
evalStatements(stmts) == evalStatementsFrom(stmts, 1, Absent)

\* the node kinds Eval's type switch has a case for
EvalCases == {"IntegerLiteral", "Boolean", "Program", "ExpressionStatement",
              "PrefixExpression", "InfixExpression"}

\* func Eval(node ast.Node) object.Object
Eval(node) ==
    IF node.kind \notin EvalCases THEN Absent
    ELSE IF IsNilPtr(node) THEN NilDeref
    ELSE CASE node.kind = "IntegerLiteral" -> Integer(node.Value)
           [] node.kind = "Boolean" -> nativeBoolToBooleanObject(node.Value)
           [] node.kind = "Program" -> evalStatements(node.Statements)
           [] node.kind = "ExpressionStatement" -> Eval(node.Expression)
           [] node.kind = "PrefixExpression" ->
                LET right == Eval(node.Right)
                IN  IF IsPanic(right) THEN right
                    ELSE evalPrefixExpression(node.Operator, right)
           [] node.kind = "InfixExpression" ->
                LET left == Eval(node.Left)
                IN  IF IsPanic(left) THEN left
                    ELSE LET right == Eval(node.Right)
                         IN  IF IsPanic(right) THEN right
                             ELSE evalInfixExpression(node.Operator, left, right)

-----------------------------------------------------------------------------
(* package parser: src/unnamed/part_002 (the full parser).  Every parse     *)
(* function takes the Parser p and returns the Parser after the call with   *)
(* what the function returns.  The Parser record carries its two handler    *)
(* tables, as the struct does, and the precedence table of its package.     *)

LOWEST      == 1
EQUALS      == 2
LESSGREATER == 3
SUM         == 4
PRODUCT     == 5
PREFIX      == 6
CALL        == 7

\* var precedences = map[token.TokenType]int{...}
precedences ==
    (token_EQ :> EQUALS) @@ (token_NOT_EQ :> EQUALS) @@
    (token_LT :> LESSGREATER) @@ (token_GT :> LESSGREATER) @@
    (token_PLUS :> SUM) @@ (token_MINUS :> SUM) @@
    (token_SLASH :> PRODUCT) @@ (token_ASTERISK :> PRODUCT) @@
    (token_LPAREN :> CALL)

\* the registrations of init(): token type -> prefix handler
prefixParserFns ==
    (token_IDENT :> "parseIdentifier") @@
    (token_INT :> "parseIntegerLiteral") @@
    (token_BANG :> "parsePrefixExpression") @@
    (token_MINUS :> "parsePrefixExpression") @@
    (token_TRUE :> "parseBoolean") @@
    (token_FALSE :> "parseBoolean") @@
    (token_LPAREN :> "parseGroupedExpression") @@
    (token_IF :> "parseIfExpression") @@
    (token_FUNCTION :> "parseFunctionExpression")

\* the registrations of init(): token type -> infix handler
infixParseFns ==
    (token_PLUS :> "parseInfixExpression") @@
    (token_MINUS :> "parseInfixExpression") @@
    (token_SLASH :> "parseInfixExpression") @@
    (token_ASTERISK :> "parseInfixExpression") @@
    (token_EQ :> "parseInfixExpression") @@
    (token_NOT_EQ :> "parseInfixExpression") @@
    (token_LT :> "parseInfixExpression") @@
    (token_GT :> "parseInfixExpression") @@
    (token_LPAREN :> "parseCallExpression")

\* p.l.NextToken() for the i-th call on the parser's lexer: the tokens of
\* the stream, then EOF for every further call
LexerNext(i) == IF i <= Len(toks) THEN toks[i] ELSE Token(token_EOF, <<>>)

\* func (p *Parser) nextToken(); idx counts the lexer calls and is not
\* counted further once the lexer only repeats EOF
nextToken(p) ==
    [p EXCEPT !.curToken = p.peekToken,
              !.peekToken = LexerNext(p.idx + 1),
              !.idx = IF p.idx <= Len(toks) THEN p.idx + 1 ELSE p.idx]

\* a local variable of a Go function: the expression is evaluated once
\* and its value is used in the rest of the function
Bind(value, Rest(_)) == CHOOSE result \in {Rest(v) : v \in {value}} : TRUE

\* func (p *Parser) peekTokenIs(t) bool
peekTokenIs(p, t) == p.peekToken.Type = t

\* func (p *Parser) curTokenIs(t) bool
curTokenIs(p, t) == p.curToken.Type = t

\* peekError naming the current token in place of the peek token
peekError_curToken(p, t) ==
    [p EXCEPT !.errors = Append(p.errors,
        <<"expected next token to be ", TypeText(t), ", got ",
          TypeText(p.curToken.Type), " instead">>)]

\* func (p *Parser) peekError(t): fmt.Sprintf("expected next token to be
\* %s, got %s instead", t, p.peekToken.Type), the message as its pieces
peekError(p, t) ==
    [p EXCEPT !.errors = Append(p.errors,
        <<"expected next token to be ", TypeText(t), ", got ",
          TypeText(p.peekToken.Type), " instead">>)]

\* noPrefixParseFnError recording nothing
noPrefixParseFnError_silent(p, t) == p

\* func (p *Parser) noPrefixParseFnError(t)
noPrefixParseFnError(p, t) ==
    [p EXCEPT !.errors = Append(p.errors,
        <<"no prefix parse function for ", TypeText(t), " found">>)]

\* func (p *Parser) expectPeek(t) bool: [p, ok]
expectPeek(p, t) ==
    IF peekTokenIs(p, t)
    THEN [p |-> nextToken(p), ok |-> TRUE]
    ELSE [p |-> peekError(p, t), ok |-> FALSE]

\* func (p *Parser) peekPrecedence() int
peekPrecedence(p) ==
    IF p.peekToken.Type \in DOMAIN p.precedences
    THEN p.precedences[p.peekToken.Type]
    ELSE LOWEST

\* func (p *Parser) curPrecedence() int
curPrecedence(p) ==
    IF p.curToken.Type \in DOMAIN p.precedences
    THEN p.precedences[p.curToken.Type]
    ELSE LOWEST

RECURSIVE DigitsValue(_, _, _)
\* the value of the digits of s in the base, -1 when a byte of s is no
\* digit of the base or the value passes MaxInt (strconv's two errors)
DigitsValue(s, base, acc) ==
    IF s = <<>> THEN acc
    ELSE LET d == Head(s) - 48
         IN  IF d < 0 \/ d >= base THEN -1
             ELSE IF acc * base + d > MaxInt THEN -1
             ELSE DigitsValue(Tail(s), base, acc * base + d)

\* strconv.ParseInt(s, 0, 64) for a string without sign, letters or
\* underscores: base 0 reads a leading "0" as the octal prefix.
\* [ok, value]
ParseInt(s) ==
    LET octal == s # <<>> /\ Head(s) = 48
        v == IF s = <<>> THEN -1
             ELSE IF octal THEN DigitsValue(Tail(s), 8, 0)
             ELSE DigitsValue(s, 10, 0)
    IN  [ok |-> v >= 0, value |-> IF v >= 0 THEN v ELSE 0]

\* func (p *Parser) parseIdentifier() ast.Expression
parseIdentifier(p) == [p |-> p, node |-> Identifier(p.curToken)]

\* func (p *Parser) parseIntegerLiteral() ast.Expression
parseIntegerLiteral(p) ==
    LET r == ParseInt(p.curToken.Literal)
    IN  IF ~r.ok
        THEN [p |-> [p EXCEPT !.errors = Append(p.errors,
                        <<"could not parse ", p.curToken.Literal,
                          " as integer">>)],
              node |-> NilNode]
        ELSE [p |-> p, node |-> IntegerLiteral(p.curToken, r.value)]

\* func (p *Parser) parseBoolean() ast.Expression
parseBoolean(p) ==
    [p |-> p, node |-> Boolean(p.curToken, curTokenIs(p, token_TRUE))]

RECURSIVE parseExpression(_, _)
RECURSIVE parseExpressionLoop(_, _, _)
RECURSIVE parseStatement(_)
RECURSIVE parseBlockStatement(_)
RECURSIVE parseBlockStatementLoop(_, _, _)
RECURSIVE parseCallArgumentsLoop(_, _)

\* func (p *Parser) parsePrefixExpression() ast.Expression
parsePrefixExpression(p) ==
    Bind(nextToken(p), LAMBDA p1 :
    Bind(parseExpression(p1, PREFIX), LAMBDA r :
        [p |-> r.p, node |-> PrefixExpression(p.curToken, r.node)]))

\* parseInfixExpression parsing its right operand one level lower, which
\* groups equal-precedence chains right to left
parseInfixExpression_rightAssoc(p, left) ==
    Bind(curPrecedence(p), LAMBDA precedence :
    Bind(nextToken(p), LAMBDA p1 :
    Bind(parseExpression(p1, precedence - 1), LAMBDA r :
        [p |-> r.p, node |-> InfixExpression(p.curToken, left, r.node)])))

\* func (p *Parser) parseInfixExpression(left) ast.Expression
parseInfixExpression(p, left) ==
    Bind(curPrecedence(p), LAMBDA precedence :
    Bind(nextToken(p), LAMBDA p1 :
    Bind(parseExpression(p1, precedence), LAMBDA r :
        [p |-> r.p, node |-> InfixExpression(p.curToken, left, r.node)])))

\* func (p *Parser) parseGroupedExpression() ast.Expression
parseGroupedExpression(p) ==
    Bind(nextToken(p), LAMBDA p1 :
    Bind(parseExpression(p1, LOWEST), LAMBDA r :
    Bind(expectPeek(r.p, token_RPAREN), LAMBDA e :
        IF ~e.ok THEN [p |-> e.p, node |-> NilNode]
        ELSE [p |-> e.p, node |-> r.node])))

\* func (p *Parser) parseIfExpression() ast.Expression
parseIfExpression(p) ==
    Bind(expectPeek(p, token_LPAREN), LAMBDA e1 :
    IF ~e1.ok THEN [p |-> e1.p, node |-> NilNode] ELSE
    Bind(nextToken(e1.p), LAMBDA p1 :
    Bind(parseExpression(p1, LOWEST), LAMBDA c :
    Bind(expectPeek(c.p, token_RPAREN), LAMBDA e2 :
    IF ~e2.ok THEN [p |-> e2.p, node |-> NilNode] ELSE
    Bind(expectPeek(e2.p, token_LBRACE), LAMBDA e3 :
    IF ~e3.ok THEN [p |-> e3.p, node |-> NilNode] ELSE
    Bind(parseBlockStatement(e3.p), LAMBDA th :
    IF ~peekTokenIs(th.p, token_ELSE)
    THEN [p |-> th.p,
          node |-> IfExpression(p.curToken, c.node, th.node, NilNode)]
    ELSE
    Bind(nextToken(th.p), LAMBDA p2 :
    Bind(expectPeek(p2, token_LBRACE), LAMBDA e4 :
    IF ~e4.ok THEN [p |-> e4.p, node |-> NilNode] ELSE
    Bind(parseBlockStatement(e4.p), LAMBDA el :
        [p |-> el.p,
         node |-> IfExpression(p.curToken, c.node, th.node, el.node)]
    )))))))))

RECURSIVE parseFunctionParametersLoop(_, _)
\* the loop of parseFunctionParameters: for p.peekTokenIs(token.COMMA)
parseFunctionParametersLoop(p, identifiers) ==
    IF peekTokenIs(p, token_COMMA)
    THEN Bind(nextToken(nextToken(p)), LAMBDA p2 :
         Bind(Append(identifiers, Identifier(p2.curToken)), LAMBDA ids :
             parseFunctionParametersLoop(p2, ids)))
    ELSE [p |-> p, list |-> identifiers]

\* func (p *Parser) parseFunctionParameters() []*ast.Identifier
\* (a nil slice is the empty sequence)
parseFunctionParameters(p) ==
    IF peekTokenIs(p, token_RPAREN)
    THEN [p |-> nextToken(p), list |-> <<>>]
    ELSE Bind(nextToken(p), LAMBDA p2 :
         Bind(parseFunctionParametersLoop(p2, <<Identifier(p2.curToken)>>),
              LAMBDA r :
         Bind(expectPeek(r.p, token_RPAREN), LAMBDA e :
             IF ~e.ok THEN [p |-> e.p, list |-> <<>>]
             ELSE [p |-> e.p, list |-> r.list])))

\* func (p *Parser) parseFunctionExpression() ast.Expression
parseFunctionExpression(p) ==
    Bind(expectPeek(p, token_LPAREN), LAMBDA e1 :
    IF ~e1.ok THEN [p |-> e1.p, node |-> NilNode] ELSE
    Bind(parseFunctionParameters(e1.p), LAMBDA ps :
    Bind(expectPeek(ps.p, token_LBRACE), LAMBDA e2 :
    IF ~e2.ok THEN [p |-> e2.p, node |-> NilNode] ELSE
    Bind(parseBlockStatement(e2.p), LAMBDA b :
        [p |-> b.p, node |-> FunctionLiteral(p.curToken, ps.list, b.node)]
    ))))

\* the loop of parseCallArguments: for p.peekTokenIs(token.COMMA)
parseCallArgumentsLoop(p, args) ==
    IF peekTokenIs(p, token_COMMA)
    THEN Bind(nextToken(nextToken(p)), LAMBDA p2 :
         Bind(parseExpression(p2, LOWEST), LAMBDA r :
         Bind(Append(args, r.node), LAMBDA args1 :
             parseCallArgumentsLoop(r.p, args1))))
    ELSE [p |-> p, list |-> args]

\* func (p *Parser) parseCallArguments() []ast.Expression
parseCallArguments(p) ==
    IF peekTokenIs(p, token_RPAREN)
    THEN [p |-> nextToken(p), list |-> <<>>]
    ELSE Bind(nextToken(p), LAMBDA p1 :
         Bind(parseExpression(p1, LOWEST), LAMBDA first :
         Bind(parseCallArgumentsLoop(first.p, <<first.node>>), LAMBDA r :
         Bind(expectPeek(r.p, token_RPAREN), LAMBDA e :
             IF ~e.ok THEN [p |-> e.p, list |-> <<>>]
             ELSE [p |-> e.p, list |-> r.list]))))

\* func (p *Parser) parseCallExpression(function) ast.Expression
parseCallExpression(p, function) ==
    Bind(parseCallArguments(p), LAMBDA a :
        [p |-> a.p, node |-> CallExpression(p.curToken, function, a.list)])

\* prefix := p.prefixParserFns[p.curToken.Type]; prefix()
callPrefix(fn, p) ==
    CASE fn = "parseIdentifier"         -> parseIdentifier(p)
      [] fn = "parseIntegerLiteral"     -> parseIntegerLiteral(p)
      [] fn = "parsePrefixExpression"   -> parsePrefixExpression(p)
      [] fn = "parseBoolean"            -> parseBoolean(p)
      [] fn = "parseGroupedExpression"  -> parseGroupedExpression(p)
      [] fn = "parseIfExpression"       -> parseIfExpression(p)
      [] fn = "parseFunctionExpression" -> parseFunctionExpression(p)

\* infix := p.infixParseFns[p.peekToken.Type]; infix(leftExp)
callInfix(fn, p, leftExp) ==
    CASE fn = "parseInfixExpression" -> parseInfixExpression(p, leftExp)
      [] fn = "parseCallExpression"  -> parseCallExpression(p, leftExp)

\* the loop of parseExpression
parseExpressionLoop(p, precedence, leftExp) ==
    IF ~peekTokenIs(p, token_SEMICOLON) /\ precedence < peekPrecedence(p)
    THEN IF p.peekToken.Type \notin DOMAIN p.infixParseFns
         THEN [p |-> p, node |-> leftExp]
         ELSE Bind(nextToken(p), LAMBDA p1 :
              Bind(callInfix(p.infixParseFns[p.peekToken.Type], p1, leftExp),
                   LAMBDA r :
                  parseExpressionLoop(r.p, precedence, r.node)))
    ELSE [p |-> p, node |-> leftExp]

\* func (p *Parser) parseExpression(precedence int) ast.Expression
parseExpression(p, precedence) ==
    IF p.curToken.Type \notin DOMAIN p.prefixParserFns
    THEN [p |-> noPrefixParseFnError(p, p.curToken.Type), node |-> NilNode]
    ELSE Bind(callPrefix(p.prefixParserFns[p.curToken.Type], p), LAMBDA r :
             parseExpressionLoop(r.p, precedence, r.node))

\* if p.peekTokenIs(token.SEMICOLON) { p.nextToken() }
skipSemicolon(p) == IF peekTokenIs(p, token_SEMICOLON) THEN nextToken(p) ELSE p

\* func (p *Parser) parseLetStatement() *ast.LetStatement: a nil result is
\* a nil pointer of type *ast.LetStatement
parseLetStatement(p) ==
    Bind(expectPeek(p, token_IDENT), LAMBDA e1 :
    IF ~e1.ok THEN [p |-> e1.p, node |-> NilPtr("LetStatement")] ELSE
    Bind(expectPeek(e1.p, token_ASSIGN), LAMBDA e2 :
    IF ~e2.ok THEN [p |-> e2.p, node |-> NilPtr("LetStatement")] ELSE
    Bind(nextToken(e2.p), LAMBDA p1 :
    Bind(parseExpression(p1, LOWEST), LAMBDA v :
        [p |-> skipSemicolon(v.p),
         node |-> LetStatement(p.curToken, Identifier(e1.p.curToken),
                               v.node)]))))

\* func (p *Parser) parseReturnStatement() *ast.ReturnStatement
parseReturnStatement(p) ==
    Bind(nextToken(p), LAMBDA p1 :
    Bind(parseExpression(p1, LOWEST), LAMBDA v :
        [p |-> skipSemicolon(v.p), node |-> ReturnStatement(p.curToken, v.node)]))

\* func (p *Parser) parseExpressionStatement() *ast.ExpressionStatement
parseExpressionStatement(p) ==
    Bind(parseExpression(p, LOWEST), LAMBDA v :
        [p |-> skipSemicolon(v.p),
         node |-> ExpressionStatement(p.curToken, v.node)])

\* func (p *Parser) parseStatement() ast.Statement: the pointer a parse
\* function returns is stored in the interface value as it is, a nil
\* pointer included
parseStatement(p) ==
    CASE p.curToken.Type = token_LET    -> parseLetStatement(p)
      [] p.curToken.Type = token_RETURN -> parseReturnStatement(p)
      [] OTHER                          -> parseExpressionStatement(p)

\* the loop of parseBlockStatement
parseBlockStatementLoop(p, tok, stmts) ==
    IF ~curTokenIs(p, token_RBRACE) /\ ~curTokenIs(p, token_EOF)
    THEN Bind(parseStatement(p), LAMBDA r :
         Bind(nextToken(r.p), LAMBDA p1 :
         Bind(IF r.node # NilNode THEN Append(stmts, r.node) ELSE stmts,
              LAMBDA stmts1 :
             parseBlockStatementLoop(p1, tok, stmts1))))
    ELSE [p |-> p, node |-> BlockStatement(tok, stmts)]

\* func (p *Parser) parseBlockStatement() *ast.BlockStatement
parseBlockStatement(p) ==
    Bind(nextToken(p), LAMBDA p1 :
        parseBlockStatementLoop(p1, p.curToken, <<>>))

\* func New(l *lexer.Lexer) *Parser with init(): two nextToken calls, then
\* the registrations
parser_New ==
    nextToken(nextToken(
        [curToken |-> ZeroToken, peekToken |-> ZeroToken, idx |-> 0,
         errors |-> <<>>, prefixParserFns |-> prefixParserFns,
         infixParseFns |-> infixParseFns, precedences |-> precedences]))

-----------------------------------------------------------------------------
(* Lexer specification: a source string is given to New, then NextToken is *)
(* called repeatedly.                                                      *)

\* bytes the source strings are drawn from:
\* NUL, space, LF, '!', '*', '+', '-', '.', '/', '1', '5', ';', '<', '=',
\* '>', 'f', 'n'
SrcBytes == {0, 32, 10, 33, 42, 43, 45, 46, 47, 49, 53, 59, 60, 61, 62, 102, 110}

RECURSIVE StringsUpTo(_, _)
StringsUpTo(alphabet, n) ==
    IF n = 0 THEN {<<>>}
    ELSE LET shorter == StringsUpTo(alphabet, n - 1)
         IN  shorter \cup {Append(s, b) : s \in {t \in shorter : Len(t) = n - 1},
                                          b \in alphabet}

NoParser == [curToken |-> ZeroToken, peekToken |-> ZeroToken, idx |-> 0,
             errors |-> <<>>, prefixParserFns |-> <<>>,
             infixParseFns |-> <<>>, precedences |-> <<>>]
NoCall == [fn |-> "none"]
NoObject == [Type |-> "none", Value |-> 0, ref |-> "none"]

\* sources with tab and CR: "f\t1", "\r\nf", "f \t\r\n1", "\t", "\r"
WhiteSpaceSamples ==
    { <<102, 9, 49>>, <<13, 10, 102>>, <<102, 32, 9, 13, 10, 49>>,
      <<9>>, <<13>> }

LexInit ==
    /\ lexer \in {New(s) : s \in StringsUpTo(SrcBytes, MaxSrcLen)
                                  \cup WhiteSpaceSamples}
    /\ tokens = <<>>
    /\ toks = <<>>
    /\ parser = NoParser
    /\ statements = <<>>
    /\ pending = NilNode
    /\ pc = "lexing"
    /\ evCall = NoCall
    /\ evResult = NoObject

\* one call of l.NextToken() by the lexer's user
LexNextToken ==
    /\ pc = "lexing"
    /\ Len(tokens) < len(lexer.input) + 1 + ExtraCalls
    /\ LET r == NextToken(lexer)
       IN  /\ lexer' = r.l
           /\ tokens' = Append(tokens, r.tok)
    /\ UNCHANGED <<toks, parser, statements, pending, pc, evCall, evResult>>

LexNext == LexNextToken

LexSpec == LexInit /\ [][LexNext]_vars

-----------------------------------------------------------------------------
(* Parser specification: a token stream is handed to the parser through    *)
(* its lexer, ParseProgram runs one statement per step, and the Program it  *)
(* returns is evaluated.                                                    *)

\* longest token stream drawn from all of ParserTokens
MaxToks == 3
\* longest token stream drawn from the expression tokens alone
MaxExprToks == 4

tA   == Token(token_IDENT, <<97>>)
tB   == Token(token_IDENT, <<98>>)
tC   == Token(token_IDENT, <<99>>)
tD   == Token(token_IDENT, <<100>>)
tX   == Token(token_IDENT, <<120>>)
tY   == Token(token_IDENT, <<121>>)
tAdd == Token(token_IDENT, <<97, 100, 100>>)
t0   == Token(token_INT, <<48>>)
t2   == Token(token_INT, <<50>>)
t5   == Token(token_INT, <<53>>)
tAssign    == Token(token_ASSIGN, <<61>>)
tPlus      == Token(token_PLUS, STR_PLUS)
tMinus     == Token(token_MINUS, STR_MINUS)
tBang      == Token(token_BANG, STR_BANG)
tAsterisk  == Token(token_ASTERISK, STR_ASTERISK)
tSlash     == Token(token_SLASH, STR_SLASH)
tLT        == Token(token_LT, <<60>>)
tGT        == Token(token_GT, <<62>>)
tEQ        == Token(token_EQ, <<61, 61>>)
tNotEQ     == Token(token_NOT_EQ, <<33, 61>>)
tComma     == Token(token_COMMA, <<44>>)
tSemicolon == Token(token_SEMICOLON, <<59>>)
tLParen    == Token(token_LPAREN, <<40>>)
tRParen    == Token(token_RPAREN, <<41>>)
tLBrace    == Token(token_LBRACE, <<123>>)
tRBrace    == Token(token_RBRACE, <<125>>)
tFn        == Token(token_FUNCTION, STR_fn)
tLet       == Token(token_LET, STR_let)
tTrue      == Token(token_TRUE, STR_true)
tFalse     == Token(token_FALSE, STR_false)
tIf        == Token(token_IF, STR_if)
tElse      == Token(token_ELSE, STR_else)
tReturn    == Token(token_RETURN, STR_return)

\* the tokens of the short streams
ParserTokens ==
    {tA, t0, tAssign, tMinus, tSlash, tSemicolon, tLParen, tRParen, tLBrace,
     tFn, tLet, tReturn}

\* the tokens of the expression streams
ExprTokens ==
    {tA, tMinus, tPlus, tAsterisk, tEQ, tLParen, tRParen, tComma}

\* the binary operator tokens
BinaryTokens ==
    {tPlus, tMinus, tAsterisk, tSlash, tLT, tGT, tEQ, tNotEQ}

\* "a op1 b op2 c", "-a op1 b" and "!a op1 b" for all binary operators
OperatorStreams ==
    {<<tA, o1, tB, o2, tC>> : o1 \in BinaryTokens, o2 \in BinaryTokens}
    \cup {<<o, tA, o1, tB>> : o \in {tMinus, tBang}, o1 \in BinaryTokens}

\* "-a * b", "a + b + c", "a + b * c", "(a + b) * c", "a + add(b, c) + d"
Sample_NegMul  == <<tMinus, tA, tAsterisk, tB>>
Sample_SumSum  == <<tA, tPlus, tB, tPlus, tC>>
Sample_SumMul  == <<tA, tPlus, tB, tAsterisk, tC>>
Sample_Grouped == <<tLParen, tA, tPlus, tB, tRParen, tAsterisk, tC>>
Sample_Call    == <<tA, tPlus, tAdd, tLParen, tB, tComma, tC, tRParen,
                    tPlus, tD>>
\* "5 + 5 * 2", "!true", "!5", "-true"
Sample_Arith   == <<t5, tPlus, t5, tAsterisk, t2>>
Sample_NotTrue == <<tBang, tTrue>>
Sample_Not5    == <<tBang, t5>>
Sample_NegTrue == <<tMinus, tTrue>>
\* "if (x < y) { x } else { y }"
Sample_IfElse  == <<tIf, tLParen, tX, tLT, tY, tRParen, tLBrace, tX, tRBrace,
                    tElse, tLBrace, tY, tRBrace>>
\* "let x 5;"
Sample_LetX5   == <<tLet, tX, t5, tSemicolon>>
\* well-formed statements: "let y = 5;", "return a;", "a + b;", "a"
Tail_Let    == <<tLet, tY, tAssign, t5, tSemicolon>>
Tail_Return == <<tReturn, tA, tSemicolon>>
Tail_Sum    == <<tA, tPlus, tB, tSemicolon>>
Tail_Ident  == <<tA>>
\* "fn(0, 2) { }", "fn(x, y) { x }"
Sample_FnInts == <<tFn, tLParen, t0, tComma, t2, tRParen, tLBrace, tRBrace>>
Sample_FnXY   == <<tFn, tLParen, tX, tComma, tY, tRParen, tLBrace, tX,
                   tRBrace>>
WellFormedTails ==
    {Tail_Let, Tail_Return, Tail_Sum, Tail_Ident, Tail_Let \o Tail_Return,
     Tail_Sum \o Tail_Let \o Tail_Ident}

SampleStreams ==
    {Sample_NegMul, Sample_SumSum, Sample_SumMul, Sample_Grouped,
     Sample_Call, Sample_Arith, Sample_NotTrue, Sample_Not5, Sample_NegTrue,
     Sample_IfElse, Sample_LetX5, Sample_FnInts, Sample_FnXY}
    \cup {Sample_LetX5 \o w : w \in WellFormedTails}
    \cup OperatorStreams

\* longest digit run of an INT token
MaxDigits == 3

\* the digit runs the lexer can hand over as INT literals, over '0' '1' '8'
DigitRuns == StringsUpTo({48, 49, 56}, MaxDigits) \ {<<>>}

\* programs that are one integer literal
IntegerStreams == {<<Token(token_INT, d)>> : d \in DigitRuns}

ParserInputs ==
    StringsUpTo(ParserTokens, MaxToks)
    \cup StringsUpTo(ExprTokens, MaxExprToks)
    \cup SampleStreams
    \cup IntegerStreams

ParseInit ==
    /\ lexer = New(<<>>)
    /\ tokens = <<>>
    /\ toks \in ParserInputs
    /\ parser = parser_New
    /\ statements = <<>>
    /\ pending = NilNode
    /\ pc = "ParseProgram"
    /\ evCall = NoCall
    /\ evResult = NoObject

\* one iteration of the loop of ParseProgram
ParseProgramStatement_noAdvance ==
    /\ pc = "ParseProgram"
    /\ ~curTokenIs(parser, token_EOF)
    /\ LET r == parseStatement(parser)
       IN  /\ statements' = IF r.node # NilNode
                            THEN Append(statements, r.node)
                            ELSE statements
           /\ parser' = r.p
    /\ UNCHANGED <<lexer, tokens, toks, pending, pc, evCall, evResult>>

ParseProgramStatement ==
    /\ pc = "ParseProgram"
    /\ ~curTokenIs(parser, token_EOF)
    /\ LET r == parseStatement(parser)
       IN  /\ statements' = IF r.node # NilNode
                            THEN Append(statements, r.node)
                            ELSE statements
           /\ parser' = nextToken(r.p)
    /\ UNCHANGED <<lexer, tokens, toks, pending, pc, evCall, evResult>>

\* the loop of ParseProgram ends and the program is returned
ParseProgramReturn ==
    /\ pc = "ParseProgram"
    /\ curTokenIs(parser, token_EOF)
    /\ pc' = "parsed"
    /\ UNCHANGED <<lexer, tokens, toks, parser, statements, pending, evCall,
                   evResult>>

\* Eval(program) on the program ParseProgram returned
EvalProgram ==
    /\ pc = "parsed"
    /\ evCall' = [fn |-> "Eval", node |-> Program(statements)]
    /\ evResult' = Eval(Program(statements))
    /\ pc' = "evaluated"
    /\ UNCHANGED <<lexer, tokens, toks, parser, statements, pending>>

ParseNext == ParseProgramStatement \/ ParseProgramReturn \/ EvalProgram

ParseSpec == ParseInit /\ [][ParseNext]_vars

\* the parser is a sequential program: it keeps running while it can
ParseFairSpec == ParseInit /\ [][ParseNext]_vars /\ WF_vars(ParseNext)

-----------------------------------------------------------------------------
(* package parser: src/sugiru/parser/parser.go.  Its expression functions   *)
(* are those of the full parser, with the handlers and the precedence table *)
(* of its own init() and package; its let and return statements skip to    *)
(* the semicolon in a loop, modelled one iteration per step.                *)

\* var precedences of parser.go
SP_precedences ==
    (token_EQ :> EQUALS) @@ (token_NOT_EQ :> EQUALS) @@
    (token_LT :> LESSGREATER) @@ (token_GT :> LESSGREATER) @@
    (token_PLUS :> SUM) @@ (token_MINUS :> SUM) @@
    (token_SLASH :> PRODUCT) @@ (token_ASTERISK :> PRODUCT)

\* the prefix registrations of init() of parser.go
SP_prefixParserFns ==
    (token_IDENT :> "parseIdentifier") @@
    (token_INT :> "parseIntegerLiteral") @@
    (token_BANG :> "parsePrefixExpression") @@
    (token_MINUS :> "parsePrefixExpression")

\* the infix registrations of init() of parser.go
SP_infixParseFns ==
    (token_PLUS :> "parseInfixExpression") @@
    (token_MINUS :> "parseInfixExpression") @@
    (token_SLASH :> "parseInfixExpression") @@
    (token_ASTERISK :> "parseInfixExpression") @@
    (token_EQ :> "parseInfixExpression") @@
    (token_NOT_EQ :> "parseInfixExpression") @@
    (token_LT :> "parseInfixExpression") @@
    (token_GT :> "parseInfixExpression")

\* func New(l *lexer.Lexer) *Parser of parser.go
SP_New ==
    nextToken(nextToken(
        [curToken |-> ZeroToken, peekToken |-> ZeroToken, idx |-> 0,
         errors |-> <<>>, prefixParserFns |-> SP_prefixParserFns,
         infixParseFns |-> SP_infixParseFns,
         precedences |-> SP_precedences]))

\* "let x = 5", "return 5", "let x = 5;", "return 5;", "let x = 5; a"
SP_Samples ==
    { <<tLet, tX, tAssign, t5>>, <<tReturn, t5>>,
      <<tLet, tX, tAssign, t5, tSemicolon>>, <<tReturn, t5, tSemicolon>>,
      <<tLet, tX, tAssign, t5, tSemicolon, tA>> }

SP_Init ==
    /\ lexer = New(<<>>)
    /\ tokens = <<>>
    /\ toks \in StringsUpTo(ParserTokens, MaxToks) \cup SP_Samples
    /\ parser = SP_New
    /\ statements = <<>>
    /\ pending = NilNode
    /\ pc = "ParseProgram"
    /\ evCall = NoCall
    /\ evResult = NoObject

\* the loop of ParseProgram ends and the program is returned
SP_ParseProgramReturn ==
    /\ pc = "ParseProgram"
    /\ curTokenIs(parser, token_EOF)
    /\ pc' = "parsed"
    /\ UNCHANGED <<lexer, tokens, toks, parser, statements, pending, evCall,
                   evResult>>

\* an iteration of ParseProgram whose statement is an expression statement
SP_ExpressionStatement ==
    /\ pc = "ParseProgram"
    /\ parser.curToken.Type \notin {token_EOF, token_LET, token_RETURN}
    /\ LET r == parseExpressionStatement(parser)
       IN  /\ statements' = Append(statements, r.node)
           /\ parser' = nextToken(r.p)
    /\ UNCHANGED <<lexer, tokens, toks, pending, pc, evCall, evResult>>

\* parseLetStatement up to its loop: when an expectPeek fails it returns a
\* nil *ast.LetStatement, which ParseProgram appends and steps over
SP_LetStatement ==
    /\ pc = "ParseProgram"
    /\ curTokenIs(parser, token_LET)
    /\ LET e1 == expectPeek(parser, token_IDENT)
           e2 == expectPeek(e1.p, token_ASSIGN)
       IN  IF ~e1.ok \/ ~e2.ok
           THEN /\ statements' = Append(statements, NilPtr("LetStatement"))
                /\ parser' = nextToken(IF ~e1.ok THEN e1.p ELSE e2.p)
                /\ UNCHANGED <<pending, pc>>
           ELSE /\ pending' = LetStatement(parser.curToken,
                                           Identifier(e1.p.curToken), NilNode)
                /\ parser' = e2.p
                /\ pc' = "skipToSemicolon"
                /\ UNCHANGED statements
    /\ UNCHANGED <<lexer, tokens, toks, evCall, evResult>>

\* parseReturnStatement up to its loop
SP_ReturnStatement ==
    /\ pc = "ParseProgram"
    /\ curTokenIs(parser, token_RETURN)
    /\ pending' = ReturnStatement(parser.curToken, NilNode)
    /\ parser' = nextToken(parser)
    /\ pc' = "skipToSemicolon"
    /\ UNCHANGED <<lexer, tokens, toks, statements, evCall, evResult>>

\* for !p.curTokenIs(token.SEMICOLON) { p.nextToken() }: one iteration
SP_SkipToken ==
    /\ pc = "skipToSemicolon"
    /\ ~curTokenIs(parser, token_SEMICOLON)
    /\ parser' = nextToken(parser)
    /\ UNCHANGED <<lexer, tokens, toks, statements, pending, pc, evCall,
                   evResult>>

\* the loop ends at the semicolon: the statement is returned, appended by
\* ParseProgram, which advances one token
SP_SkipDone ==
    /\ pc = "skipToSemicolon"
    /\ curTokenIs(parser, token_SEMICOLON)
    /\ statements' = Append(statements, pending)
    /\ pending' = NilNode
    /\ parser' = nextToken(parser)
    /\ pc' = "ParseProgram"
    /\ UNCHANGED <<lexer, tokens, toks, evCall, evResult>>

SP_Next ==
    \/ SP_ParseProgramReturn
    \/ SP_ExpressionStatement
    \/ SP_LetStatement
    \/ SP_ReturnStatement
    \/ SP_SkipToken
    \/ SP_SkipDone

\* the parser is a sequential program: it keeps running while it can
SP_FairSpec == SP_Init /\ [][SP_Next]_vars /\ WF_vars(SP_Next)

-----------------------------------------------------------------------------
(* Evaluator specification: Eval is applied to a node, and the operator     *)
(* functions to operand values.                                             *)

\* longest statement sequence of an evaluated Program or BlockStatement
MaxStmts == 2

\* the Values of the evaluator
Values == {Integer(n) : n \in Ints} \cup {TRUE_OBJ, FALSE_OBJ, NULL}

\* operator strings: + - / * ! < > == != and %
EvalOperators ==
    {STR_PLUS, STR_MINUS, STR_SLASH, STR_ASTERISK, STR_BANG, <<60>>, <<62>>,
     <<61, 61>>, <<33, 61>>, <<37>>}

RECURSIVE Itoa(_)
\* the decimal digits of n >= 0
Itoa(n) == IF n < 10 THEN <<48 + n>> ELSE Itoa(n \div 10) \o <<48 + (n % 10)>>

IntNode(n) == IntegerLiteral(Token(token_INT, Itoa(n)), n)
BoolNode(b) == Boolean(IF b THEN tTrue ELSE tFalse, b)

EvalLeaves ==
    {IntNode(n) : n \in {0, 1, 2, 5}}
    \cup {BoolNode(TRUE), BoolNode(FALSE), Identifier(tA), NilNode}

EvalExpressions ==
    EvalLeaves
    \cup {PrefixExpression(o, e) : o \in {tBang, tMinus}, e \in EvalLeaves}
    \cup {InfixExpression(o, l, r) :
             o \in {tPlus, tMinus, tAsterisk, tSlash, tLT, tEQ},
             l \in EvalLeaves, r \in EvalLeaves}

\* the tree of "5 + 5 * 2"
Tree_Arith ==
    InfixExpression(tPlus, IntNode(5),
        InfixExpression(tAsterisk, IntNode(5), IntNode(2)))

\* the expression statements the evaluated sequences are made of
EvalStatements ==
    {ExpressionStatement(e.Token, e) :
        e \in {IntNode(1), IntNode(2), BoolNode(TRUE), Identifier(tA),
               PrefixExpression(tMinus, BoolNode(TRUE)),
               PrefixExpression(tBang, IntNode(5))}}

EvalNodes ==
    EvalExpressions \cup {Tree_Arith} \cup EvalStatements
    \cup {Program(ss) : ss \in StringsUpTo(EvalStatements, MaxStmts)}
    \cup {BlockStatement(tLBrace, ss) :
             ss \in StringsUpTo(EvalStatements, MaxStmts)}

EvalInit ==
    /\ lexer = New(<<>>)
    /\ tokens = <<>>
    /\ toks = <<>>
    /\ parser = NoParser
    /\ statements = <<>>
    /\ pending = NilNode
    /\ pc = "eval"
    /\ evCall = NoCall
    /\ evResult = NoObject

\* Eval(node)
CallEval ==
    /\ pc = "eval"
    /\ \E node \in EvalNodes :
          /\ evCall' = [fn |-> "Eval", node |-> node]
          /\ evResult' = Eval(node)
    /\ pc' = "returned"
    /\ UNCHANGED <<lexer, tokens, toks, parser, statements, pending>>

\* evalPrefixExpression(operator, right)
CallEvalPrefixExpression ==
    /\ pc = "eval"
    /\ \E operator \in EvalOperators, right \in Values :
          /\ evCall' = [fn |-> "evalPrefixExpression", operator |-> operator,
                        right |-> right]
          /\ evResult' = evalPrefixExpression(operator, right)
    /\ pc' = "returned"
    /\ UNCHANGED <<lexer, tokens, toks, parser, statements, pending>>

\* evalInfixExpression(operator, left, right)
CallEvalInfixExpression ==
    /\ pc = "eval"
    /\ \E operator \in EvalOperators, left \in Values, right \in Values :
          /\ evCall' = [fn |-> "evalInfixExpression", operator |-> operator,
                        left |-> left, right |-> right]
          /\ evResult' = evalInfixExpression(operator, left, right)
    /\ pc' = "returned"
    /\ UNCHANGED <<lexer, tokens, toks, parser, statements, pending>>

EvalNext == CallEval \/ CallEvalPrefixExpression \/ CallEvalInfixExpression

EvalSpec == EvalInit /\ [][EvalNext]_vars

-----------------------------------------------------------------------------
(* Parser claims *)

\* The reference precedence grammar, one rule per level, over the token
\* sequence ts from position i: [ok, node, pos]
\*   equality   ::= relational (("==" | "!=") relational)*
\*   relational ::= additive (("<" | ">") additive)*
\*   additive   ::= product (("+" | "-") product)*
\*   product    ::= unary (("*" | "/") unary)*
\*   unary      ::= ("!" | "-") unary | call
\*   call       ::= primary ("(" [equality ("," equality)*] ")")*
\*   primary    ::= IDENT | "(" equality ")"
RefLevelOps(level) ==
    CASE level = 1 -> {token_EQ, token_NOT_EQ}
      [] level = 2 -> {token_LT, token_GT}
      [] level = 3 -> {token_PLUS, token_MINUS}
      [] level = 4 -> {token_ASTERISK, token_SLASH}

RefFail == [ok |-> FALSE, node |-> NilNode, pos |-> 0]
RefTypeAt(ts, i) == IF i <= Len(ts) THEN ts[i].Type ELSE token_EOF

RECURSIVE RefBinary(_, _, _)
RECURSIVE RefBinaryRest(_, _, _)
RECURSIVE RefUnary(_, _)
RECURSIVE RefCallRest(_, _)
RECURSIVE RefArgsRest(_, _, _)

RefPrimary(ts, i) ==
    IF RefTypeAt(ts, i) = token_IDENT
    THEN [ok |-> TRUE, node |-> Identifier(ts[i]), pos |-> i + 1]
    ELSE IF RefTypeAt(ts, i) = token_LPAREN
    THEN LET e == RefBinary(1, ts, i + 1)
         IN  IF e.ok /\ RefTypeAt(ts, e.pos) = token_RPAREN
             THEN [e EXCEPT !.pos = e.pos + 1]
             ELSE RefFail
    ELSE RefFail

\* the arguments after the first: [ok, list, pos], pos after the ")"
RefArgsRest(ts, i, args) ==
    IF RefTypeAt(ts, i) = token_RPAREN
    THEN [ok |-> TRUE, list |-> args, pos |-> i + 1]
    ELSE IF RefTypeAt(ts, i) = token_COMMA
    THEN LET e == RefBinary(1, ts, i + 1)
         IN  IF e.ok THEN RefArgsRest(ts, e.pos, Append(args, e.node))
             ELSE [ok |-> FALSE, list |-> <<>>, pos |-> 0]
    ELSE [ok |-> FALSE, list |-> <<>>, pos |-> 0]

\* the argument lists that follow the callee r
RefCallRest(ts, r) ==
    IF ~r.ok \/ RefTypeAt(ts, r.pos) # token_LPAREN THEN r
    ELSE LET first == RefBinary(1, ts, r.pos + 1)
             args == IF RefTypeAt(ts, r.pos + 1) = token_RPAREN
                     THEN [ok |-> TRUE, list |-> <<>>, pos |-> r.pos + 2]
                     ELSE IF first.ok
                     THEN RefArgsRest(ts, first.pos, <<first.node>>)
                     ELSE [ok |-> FALSE, list |-> <<>>, pos |-> 0]
         IN  IF ~args.ok THEN RefFail
             ELSE RefCallRest(ts,
                     [ok |-> TRUE,
                      node |-> CallExpression(ts[r.pos], r.node, args.list),
                      pos |-> args.pos])

RefUnary(ts, i) ==
    IF RefTypeAt(ts, i) \in {token_BANG, token_MINUS}
    THEN LET e == RefUnary(ts, i + 1)
         IN  IF e.ok
             THEN [e EXCEPT !.node = PrefixExpression(ts[i], e.node)]
             ELSE RefFail
    ELSE RefCallRest(ts, RefPrimary(ts, i))

RefOperand(level, ts, i) ==
    IF level = 4 THEN RefUnary(ts, i) ELSE RefBinary(level + 1, ts, i)

\* left-to-right chain of the level's operators after the operand r
RefBinaryRest(level, ts, r) ==
    IF ~r.ok \/ RefTypeAt(ts, r.pos) \notin RefLevelOps(level) THEN r
    ELSE LET e == RefOperand(level, ts, r.pos + 1)
         IN  IF ~e.ok THEN RefFail
             ELSE RefBinaryRest(level, ts,
                     [ok |-> TRUE,
                      node |-> InfixExpression(ts[r.pos], r.node, e.node),
                      pos |-> e.pos])

RefBinary(level, ts, i) == RefBinaryRest(level, ts, RefOperand(level, ts, i))

\* the reference tree of the whole stream ts, when ts is an expression
RefExpression(ts) ==
    LET r == RefBinary(1, ts, 1)
    IN  IF r.ok /\ r.pos = Len(ts) + 1 THEN r ELSE RefFail

\* the trees the spec gives for its five instances
Tree_NegMul ==
    InfixExpression(tAsterisk, PrefixExpression(tMinus, Identifier(tA)),
                    Identifier(tB))
Tree_SumSum ==
    InfixExpression(Sample_SumSum[4],
        InfixExpression(tPlus, Identifier(tA), Identifier(tB)),
        Identifier(tC))
Tree_SumMul ==
    InfixExpression(tPlus, Identifier(tA),
        InfixExpression(tAsterisk, Identifier(tB), Identifier(tC)))
Tree_Grouped ==
    InfixExpression(tAsterisk,
        InfixExpression(tPlus, Identifier(tA), Identifier(tB)),
        Identifier(tC))
Tree_Call ==
    InfixExpression(tPlus,
        InfixExpression(tPlus, Identifier(tA),
            CallExpression(tLParen, Identifier(tAdd),
                           <<Identifier(tB), Identifier(tC)>>)),
        Identifier(tD))

SampleTrees ==
    { <<Sample_NegMul, Tree_NegMul>>, <<Sample_SumSum, Tree_SumSum>>,
      <<Sample_SumMul, Tree_SumMul>>, <<Sample_Grouped, Tree_Grouped>>,
      <<Sample_Call, Tree_Call>> }

\* ParseProgram has returned
Parsed == pc \in {"parsed", "evaluated"}

\* C3: for the token stream of an expression of identifiers, prefix and
\* binary operators, parentheses and call argument lists, the full parser
\* returns the tree of the reference precedence grammar (call tightest, then
\* prefix, * /, + -, < >, == !=, equal levels grouping left to right), and
\* the five instances of the spec parse to the trees it gives.
C3_PrecedenceTree ==
    Parsed =>
       /\ \A st \in SampleTrees :
             toks = st[1] =>
                statements = <<ExpressionStatement(toks[1], st[2])>>
       /\ RefExpression(toks).ok =>
             /\ statements =
                   <<ExpressionStatement(toks[1], RefExpression(toks).node)>>
             /\ parser.errors = <<>>

\* the call instance has been parsed, its call being one operand of the sum
C3_Witness ==
    /\ Parsed
    /\ toks = Sample_Call
    /\ RefExpression(toks).ok
    /\ Len(statements) = 1
    /\ statements[1].Expression.Left.Right.kind = "CallExpression"

\* the statement nodes of the well-formed statements
Stmt_Let ==
    LetStatement(tLet, Identifier(tY), IntegerLiteral(t5, 5))
Stmt_Return == ReturnStatement(tReturn, Identifier(tA))
Stmt_Sum ==
    ExpressionStatement(tA,
        InfixExpression(tPlus, Identifier(tA), Identifier(tB)))
Stmt_Ident == ExpressionStatement(tA, Identifier(tA))

\* the statements of the well-formed tail w
TailStatements(w) ==
    CASE w = Tail_Let    -> <<Stmt_Let>>
      [] w = Tail_Return -> <<Stmt_Return>>
      [] w = Tail_Sum    -> <<Stmt_Sum>>
      [] w = Tail_Ident  -> <<Stmt_Ident>>
      [] w = Tail_Let \o Tail_Return -> <<Stmt_Let, Stmt_Return>>
      [] w = Tail_Sum \o Tail_Let \o Tail_Ident ->
            <<Stmt_Sum, Stmt_Let, Stmt_Ident>>

\* xs ends with ys
EndsWith(xs, ys) ==
    /\ Len(ys) <= Len(xs)
    /\ SubSeq(xs, Len(xs) - Len(ys) + 1, Len(xs)) = ys

\* some recorded error is the peek error with these two %s pieces
HasPeekError(expected, got) ==
    \E i \in 1..Len(parser.errors) :
        parser.errors[i] =
            <<"expected next token to be ", expected, ", got ", got,
              " instead">>

\* C4 as the spec states it: after "let x 5;" and well-formed statements,
\* an error names the expected token type = and the actual literal 5, and
\* the later statements are in Program.Statements.
C4_ErrorNamesLiteral ==
    \A w \in WellFormedTails :
        (Parsed /\ toks = Sample_LetX5 \o w) =>
            /\ HasPeekError(TypeText(token_ASSIGN), t5.Literal)
            /\ EndsWith(statements, TailStatements(w))

\* C4 amended: the error names the expected token type = and the type of
\* the actual token, INT; the later statements are in Program.Statements.
C4_ErrorNamesType ==
    \A w \in WellFormedTails :
        (Parsed /\ toks = Sample_LetX5 \o w) =>
            /\ HasPeekError(TypeText(token_ASSIGN), TypeText(t5.Type))
            /\ EndsWith(statements, TailStatements(w))

\* "let x 5; a + b; let y = 5; a" has been parsed with an error recorded
C4_Witness ==
    /\ Parsed
    /\ toks = Sample_LetX5 \o Tail_Sum \o Tail_Let \o Tail_Ident
    /\ Len(parser.errors) >= 1
    /\ Len(statements) >= 3

RECURSIVE UsableNode(_)
RECURSIVE UsableAll(_, _)

\* every statement of the sequence from i on is usable
UsableAll(nodes, i) ==
    i > Len(nodes) \/ (UsableNode(nodes[i]) /\ UsableAll(nodes, i + 1))

\* no statement sequence inside the node holds a nil statement: neither a
\* nil interface nor a nil pointer inside an interface
UsableStatement(stmt) == stmt # NilNode /\ ~IsNilPtr(stmt)
UsableStatements(stmts) ==
    /\ \A i \in 1..Len(stmts) : UsableStatement(stmts[i])
    /\ UsableAll(stmts, 1)
UsableNode(node) ==
    IF node = NilNode \/ IsNilPtr(node) THEN TRUE
    ELSE CASE node.kind = "LetStatement" -> UsableNode(node.Value)
           [] node.kind = "ReturnStatement" -> UsableNode(node.ReturnValue)
           [] node.kind = "ExpressionStatement" -> UsableNode(node.Expression)
           [] node.kind = "BlockStatement" -> UsableStatements(node.Statements)
           [] node.kind = "PrefixExpression" -> UsableNode(node.Right)
           [] node.kind = "InfixExpression" ->
                UsableNode(node.Left) /\ UsableNode(node.Right)
           [] node.kind = "IfExpression" ->
                /\ UsableNode(node.Condition)
                /\ UsableNode(node.Then)
                /\ UsableNode(node.Else)
           [] node.kind = "FunctionLiteral" -> UsableNode(node.Body)
           [] node.kind = "CallExpression" ->
                UsableNode(node.Function) /\ UsableAll(node.Arguments, 1)
           [] OTHER -> TRUE

\* C5: a statement whose parse function returned nil is skipped: every
\* element of Program.Statements and of every BlockStatement.Statements is
\* a non-nil statement node, a failed let statement contributing none.
C5_NoNilStatement == UsableStatements(statements)

\* C10: Eval of a parsed program returns a Value or absence, and the only
\* fault of the host is the integer division by zero.
C10_OnlyDivisionFaults ==
    pc = "evaluated" =>
        \/ evResult.Type \in {INTEGER_OBJ, BOOLEAN_OBJ, NULL_OBJ}
        \/ evResult = Absent
        \/ evResult = DivideByZero

-----------------------------------------------------------------------------
(* Claims on the parser of src/sugiru/parser/parser.go *)

\* C6: the trailing semicolon is never mandatory: ParseProgram terminates
\* on every finite token stream, also when a let or return statement is
\* followed by no ";" before the end of input.
C6_ParseProgramTerminates == <>(pc = "parsed")

-----------------------------------------------------------------------------
(* Evaluator claims *)

CalledEval == pc = "returned" /\ evCall.fn = "Eval"
CalledPrefix == pc = "returned" /\ evCall.fn = "evalPrefixExpression"
CalledInfix == pc = "returned" /\ evCall.fn = "evalInfixExpression"

\* C7: Eval of a Program or of a BlockStatement made of expression
\* statements s1..sn, n >= 1, returns the value of the last statement:
\* Eval(Program{s1..sn}) = Eval(sn) and Eval(BlockStatement{s1..sn}) =
\* Eval(sn).
C7_LastStatementValue ==
    (/\ CalledEval
     /\ evCall.node.kind \in {"Program", "BlockStatement"}
     /\ Len(evCall.node.Statements) >= 1)
        => evResult =
              Eval(evCall.node.Statements[Len(evCall.node.Statements)])

\* x and y are the same number in a register of IntBits bits
SameRegister(x, y) == (x - y) % Pow2(IntBits) = 0

\* C8: prefix evaluation is the table of the spec for every operand in
\* {Integer n, TRUE, FALSE, NULL}: ! gives the shared TRUE exactly for the
\* shared FALSE and the shared FALSE for every other operand; - gives the
\* Integer that negates n (in the machine register) for an Integer n and the
\* shared NULL for every other operand; a Boolean result is one of the two
\* shared instances; !5 is FALSE and -true is NULL.
C8_PrefixTable ==
    /\ CalledPrefix =>
          /\ evCall.operator = STR_BANG =>
                evResult = IF evCall.right = FALSE_OBJ
                           THEN TRUE_OBJ ELSE FALSE_OBJ
          /\ (evCall.operator = STR_MINUS
                /\ evCall.right.Type = INTEGER_OBJ) =>
                /\ evResult.Type = INTEGER_OBJ
                /\ evResult.ref = "new"
                /\ evResult.Value \in Ints
                /\ SameRegister(evResult.Value + evCall.right.Value, 0)
                /\ evCall.right.Value # MinInt =>
                      evResult.Value = 0 - evCall.right.Value
          /\ (evCall.operator = STR_MINUS
                /\ evCall.right.Type # INTEGER_OBJ) => evResult = NULL
          /\ evResult.Type = BOOLEAN_OBJ =>
                evResult.ref \in {"TRUE", "FALSE"}
    /\ (CalledEval
          /\ evCall.node = PrefixExpression(tBang, IntNode(5)))
          => evResult = FALSE_OBJ
    /\ (CalledEval
          /\ evCall.node = PrefixExpression(tMinus, BoolNode(TRUE)))
          => evResult = NULL

\* !NULL has been evaluated
C8_Witness ==
    /\ CalledPrefix
    /\ evCall.operator = STR_BANG
    /\ evCall.right = NULL
    /\ evResult = FALSE_OBJ

\* the quotient of x by y # 0 rounded toward zero, by its defining property
IsTruncatedQuotient(q, x, y) ==
    LET rem == x - q * y
    IN  /\ Abs(rem) < Abs(y)
        /\ rem = 0 \/ ((rem < 0) = (x < 0))

BothIntegers ==
    evCall.left.Type = INTEGER_OBJ /\ evCall.right.Type = INTEGER_OBJ

\* C9: for Integer operands, + - * and / by a non-zero divisor give the
\* Integer of two's-complement arithmetic (wrapping, division truncating
\* toward zero); every other operand pair and every other operator gives
\* the shared NULL; the tree of 5 + 5 * 2 evaluates to Integer(15).
C9_InfixArithmetic ==
    /\ CalledInfix =>
          LET l == evCall.left.Value
              r == evCall.right.Value
              op == evCall.operator
              isInt == /\ evResult.Type = INTEGER_OBJ
                       /\ evResult.ref = "new"
                       /\ evResult.Value \in Ints
          IN  /\ (BothIntegers /\ op = STR_PLUS) =>
                    isInt /\ SameRegister(evResult.Value, l + r)
              /\ (BothIntegers /\ op = STR_MINUS) =>
                    isInt /\ SameRegister(evResult.Value, l - r)
              /\ (BothIntegers /\ op = STR_ASTERISK) =>
                    isInt /\ SameRegister(evResult.Value, l * r)
              /\ (BothIntegers /\ op = STR_SLASH /\ r # 0) =>
                    /\ isInt
                    /\ \E q \in (MinInt - 1)..(MaxInt + 1) :
                          /\ IsTruncatedQuotient(q, l, r)
                          /\ SameRegister(evResult.Value, q)
              /\ (~BothIntegers
                    \/ op \notin {STR_PLUS, STR_MINUS, STR_ASTERISK,
                                  STR_SLASH}) => evResult = NULL
    /\ (CalledEval /\ evCall.node = Tree_Arith) => evResult = Integer(15)

\* -7 / 2 has been evaluated to -3
C9_Witness ==
    /\ CalledInfix
    /\ evCall.operator = STR_SLASH
    /\ evCall.left = Integer(0 - 7)
    /\ evCall.right = Integer(2)
    /\ evResult = Integer(0 - 3)

-----------------------------------------------------------------------------
(* Lexer claims *)

\* indices of the EOF tokens returned so far
EOFCalls == {i \in 1..Len(tokens) : tokens[i].Type = token_EOF}

\* bytes that begin some token, or are skipped as whitespace
isWhiteSpace(ch) == ch \in {32, 9, 10, 13}
operatorBytes == {61, 43, 45, 33, 42, 47, 60, 62}
delimiterBytes == {44, 59, 40, 41, 123, 125}
StartsToken(ch) ==
    \/ ch \in operatorBytes \/ ch \in delimiterBytes
    \/ isLetter(ch) \/ isDigit(ch)

RECURSIVE SelectBytes(_, _)
\* the bytes of s that start no token and are not whitespace, in order
SelectBytes(s, i) ==
    IF i > Len(s) THEN <<>>
    ELSE IF StartsToken(s[i]) \/ isWhiteSpace(s[i])
    THEN SelectBytes(s, i + 1)
    ELSE <<s[i]>> \o SelectBytes(s, i + 1)

RECURSIVE IllegalLiterals(_, _)
\* the literals of the ILLEGAL tokens of ts, concatenated in order
IllegalLiterals(ts, i) ==
    IF i > Len(ts) THEN <<>>
    ELSE IF ts[i].Type = token_ILLEGAL
    THEN ts[i].Literal \o IllegalLiterals(ts, i + 1)
    ELSE IllegalLiterals(ts, i + 1)

\* C1: for every source string, EOF is returned within len(source)+1 calls
\* of NextToken, every call after an EOF returns EOF again, and every byte
\* that starts no token yields exactly one ILLEGAL token holding that byte,
\* lexing going on with the byte after it.
C1_EndsInEOF ==
    /\ Len(tokens) >= len(lexer.input) + 1
          => \E i \in 1..(len(lexer.input) + 1) : i \in EOFCalls
    /\ \A i \in EOFCalls : \A j \in i..Len(tokens) : j \in EOFCalls
    /\ \A i \in 1..Len(tokens) :
          tokens[i].Type = token_ILLEGAL => Len(tokens[i].Literal) = 1
    /\ Len(tokens) >= len(lexer.input) + 1
          => IllegalLiterals(tokens, 1) = SelectBytes(lexer.input, 1)

\* the operators of the token enumeration: source text and token type
Operators ==
    { [text |-> <<61>>,     type |-> token_ASSIGN],
      [text |-> <<43>>,     type |-> token_PLUS],
      [text |-> <<45>>,     type |-> token_MINUS],
      [text |-> <<33>>,     type |-> token_BANG],
      [text |-> <<42>>,     type |-> token_ASTERISK],
      [text |-> <<47>>,     type |-> token_SLASH],
      [text |-> <<60>>,     type |-> token_LT],
      [text |-> <<62>>,     type |-> token_GT],
      [text |-> <<61, 61>>, type |-> token_EQ],
      [text |-> <<33, 61>>, type |-> token_NOT_EQ] }

\* C2: source text that is one operator of the enumeration lexes to one
\* token of that operator's kind holding the operator text, then EOF; and an
\* ILLEGAL token is returned only for a byte that is no operator, delimiter,
\* bracket, letter, underscore, digit or whitespace.
C2_OperatorsLexed ==
    /\ \A o \in Operators :
          (lexer.input = o.text /\ Len(tokens) >= 2)
             => /\ tokens[1] = Token(o.type, o.text)
                /\ tokens[2].Type = token_EOF
    /\ \A i \in 1..Len(tokens) :
          tokens[i].Type = token_ILLEGAL
             => /\ Len(tokens[i].Literal) = 1
                /\ ~StartsToken(tokens[i].Literal[1])
                /\ ~isWhiteSpace(tokens[i].Literal[1])

\* token types of identifiers and keywords
WordTypes ==
    {token_IDENT, token_FUNCTION, token_LET, token_TRUE, token_FALSE,
     token_IF, token_ELSE, token_RETURN}

\* the byte belongs to the class the token is a run of
InClass(tok, ch) ==
    IF tok.Type = token_INT THEN isDigit(ch) ELSE isLetter(ch)

\* the byte of s at the zero-based index i, -1 outside s
ByteAt(s, i) == IF i < 0 \/ i >= Len(s) THEN -1 ELSE s[i + 1]

\* "1.5" and its tokens
Src_1dot5 == <<49, 46, 53>>
Tokens_1dot5 ==
    << Token(token_INT, <<49>>), Token(token_ILLEGAL, <<46>>),
       Token(token_INT, <<53>>), Token(token_EOF, <<>>) >>

\* C11: the literal of every identifier, keyword or INT token is a maximal
\* run of its class in the source: it is the source text ending at the
\* cursor, all of its bytes are of the class, and neither the byte after it
\* nor the byte before it is; "1.5" lexes as INT("1"), ILLEGAL("."),
\* INT("5"), EOF.
C11_MaximalMunch ==
    /\ tokens # <<>> =>
          LET tok   == tokens[Len(tokens)]
              end   == lexer.position
              start == end - Len(tok.Literal)
          IN  tok.Type \in WordTypes \cup {token_INT} =>
                /\ Len(tok.Literal) >= 1
                /\ start >= 0
                /\ tok.Literal = Slice(lexer.input, start, end)
                /\ \A i \in 1..Len(tok.Literal) : InClass(tok, tok.Literal[i])
                /\ ~InClass(tok, ByteAt(lexer.input, end))
                /\ ~InClass(tok, ByteAt(lexer.input, start - 1))
    /\ (lexer.input = Src_1dot5 /\ Len(tokens) >= 4)
          => SubSeq(tokens, 1, 4) = Tokens_1dot5

\* "1.5" has been lexed up to its EOF
C11_Witness == lexer.input = Src_1dot5 /\ tokens = Tokens_1dot5

-----------------------------------------------------------------------------
(* Further claims on the full parser *)

\* the child nodes of a node, in the order of its fields
Children(node) ==
    IF node = NilNode \/ IsNilPtr(node) THEN <<>>
    ELSE CASE node.kind = "LetStatement" -> <<node.Name, node.Value>>
           [] node.kind = "ReturnStatement" -> <<node.ReturnValue>>
           [] node.kind = "ExpressionStatement" -> <<node.Expression>>
           [] node.kind = "BlockStatement" -> node.Statements
           [] node.kind = "PrefixExpression" -> <<node.Right>>
           [] node.kind = "InfixExpression" -> <<node.Left, node.Right>>
           [] node.kind = "IfExpression" ->
                <<node.Condition, node.Then, node.Else>>
           [] node.kind = "FunctionLiteral" ->
                node.Parameters \o <<node.Body>>
           [] node.kind = "CallExpression" ->
                <<node.Function>> \o node.Arguments
           [] OTHER -> <<>>

RECURSIVE HasKind(_, _)
RECURSIVE AnyHasKind(_, _, _)

\* some node of the sequence from i on holds a node of one of the kinds
AnyHasKind(nodes, i, kinds) ==
    /\ i <= Len(nodes)
    /\ (HasKind(nodes[i], kinds) \/ AnyHasKind(nodes, i + 1, kinds))

\* the node or one of its descendants is of one of the kinds
HasKind(node, kinds) ==
    node.kind \in kinds \/ AnyHasKind(Children(node), 1, kinds)

\* the token stream holds no token of the type
NoTokenOf(type) == \A i \in 1..Len(toks) : toks[i].Type # type

\* C12: a construct whose expectPeek failed leaves no node in the AST.  In
\* a stream without any ")" every call expression, function literal and
\* if-expression that is begun fails an expectPeek (each needs a ")"), so
\* after the parse the AST holds no CallExpression, FunctionLiteral or
\* IfExpression node.
C12_NoPartialNode ==
    (Parsed /\ NoTokenOf(token_RPAREN)) =>
        ~AnyHasKind(statements, 1,
                    {"CallExpression", "FunctionLiteral", "IfExpression"})

\* the position in the token stream of the parser's current token, the
\* position after the last token when the current token is EOF
CurPos(p) ==
    IF p.curToken.Type = token_EOF THEN Len(toks) + 1 ELSE p.idx - 1

\* the parser after one iteration of the loop of parseBlockStatement
BlockIteration(p) == nextToken(parseStatement(p).p)

\* the parser after one iteration of the loop of parseExpression
ExpressionIteration(p) ==
    callInfix(p.infixParseFns[p.peekToken.Type], nextToken(p), NilNode).p

\* the parser after one iteration of the loop of parseFunctionParameters
ParametersIteration(p) == nextToken(nextToken(p))

\* the parser after one iteration of the loop of parseCallArguments
ArgumentsIteration(p) == parseExpression(nextToken(nextToken(p)), LOWEST).p

\* in whatever parser state one of the inner loops is entered, its
\* iteration moves the current token forward
LoopsConsume ==
    /\ (~curTokenIs(parser, token_RBRACE) /\ ~curTokenIs(parser, token_EOF))
          => CurPos(BlockIteration(parser)) > CurPos(parser)
    /\ (/\ ~peekTokenIs(parser, token_SEMICOLON)
        /\ LOWEST < peekPrecedence(parser)
        /\ parser.peekToken.Type \in DOMAIN parser.infixParseFns)
          => CurPos(ExpressionIteration(parser)) > CurPos(parser)
    /\ peekTokenIs(parser, token_COMMA)
          => /\ CurPos(ParametersIteration(parser)) > CurPos(parser)
             /\ CurPos(ArgumentsIteration(parser)) > CurPos(parser)

RECURSIVE ParametersAreIdents(_)
RECURSIVE AllParametersAreIdents(_, _)

\* ParametersAreIdents for the nodes of the sequence from i on
AllParametersAreIdents(nodes, i) ==
    \/ i > Len(nodes)
    \/ (ParametersAreIdents(nodes[i]) /\ AllParametersAreIdents(nodes, i + 1))

\* every parameter of every function literal in the node was built from a
\* token of type IDENT
ParametersAreIdents(node) ==
    /\ node.kind = "FunctionLiteral" =>
          \A i \in 1..Len(node.Parameters) :
              node.Parameters[i].Token.Type = token_IDENT
    /\ AllParametersAreIdents(Children(node), 1)

\* C14: every element of FunctionLiteral.Parameters in the returned AST was
\* built from an IDENT token, and "fn(0, 2) { }" records a parse error.
C14_ParametersAreIdentifiers ==
    Parsed =>
        /\ AllParametersAreIdents(statements, 1)
        /\ toks = Sample_FnInts => Len(parser.errors) >= 1

RECURSIVE Decimal(_, _)
\* the decimal value of the digit run s, acc being the value of the digits
\* already read
Decimal(s, acc) ==
    IF s = <<>> THEN acc ELSE Decimal(Tail(s), 10 * acc + (Head(s) - 48))

\* the program is the single INT token with this literal
IsIntegerProgram(lit) == toks = <<Token(token_INT, lit)>>

\* C15: for an INT token whose decimal value fits the integer type,
\* parseIntegerLiteral records no error and returns the IntegerLiteral of
\* that decimal value.
C15_DecimalValue ==
    \A lit \in DigitRuns :
        (Parsed /\ IsIntegerProgram(lit) /\ Decimal(lit, 0) <= MaxInt) =>
            /\ parser.errors = <<>>
            /\ statements =
                 << ExpressionStatement(toks[1],
                        IntegerLiteral(toks[1], Decimal(lit, 0))) >>

\* a nil interface value or a nil pointer inside one
IsNil(node) == node = NilNode \/ IsNilPtr(node)

\* the children a node of this kind must have
RequiredChildren(node) ==
    IF IsNil(node) THEN <<>>
    ELSE CASE node.kind = "LetStatement" -> <<node.Name, node.Value>>
           [] node.kind = "ReturnStatement" -> <<node.ReturnValue>>
           [] node.kind = "ExpressionStatement" -> <<node.Expression>>
           [] node.kind = "BlockStatement" -> node.Statements
           [] node.kind = "PrefixExpression" -> <<node.Right>>
           [] node.kind = "InfixExpression" -> <<node.Left, node.Right>>
           [] node.kind = "IfExpression" -> <<node.Condition, node.Then>>
           [] node.kind = "FunctionLiteral" -> <<node.Body>>
           [] node.kind = "CallExpression" ->
                <<node.Function>> \o node.Arguments
           [] OTHER -> <<>>

RECURSIVE NoNilChild(_)
RECURSIVE NoNilChildIn(_, _)

\* NoNilChild for the nodes of the sequence from i on
NoNilChildIn(nodes, i) ==
    i > Len(nodes) \/ (NoNilChild(nodes[i]) /\ NoNilChildIn(nodes, i + 1))

\* no required child of the node or of a descendant is nil
NoNilChild(node) ==
    /\ \A i \in 1..Len(RequiredChildren(node)) :
          ~IsNil(RequiredChildren(node)[i])
    /\ NoNilChildIn(Children(node), 1)

\* xs is an initial part of ys
IsPrefix(xs, ys) == Len(xs) <= Len(ys) /\ SubSeq(ys, 1, Len(xs)) = xs

\* C16: after ParseProgram, an empty error list means that no statement and
\* no required child reachable from the Program is nil; and no step of the
\* parse removes or changes a recorded error.
C16_NilHasDiagnostic ==
    /\ []((Parsed /\ parser.errors = <<>>) =>
            /\ \A i \in 1..Len(statements) : ~IsNil(statements[i])
            /\ NoNilChildIn(statements, 1))
    /\ [][IsPrefix(parser.errors, parser'.errors)]_vars

\* "fn(x, y) { x }" has been parsed without an error
C16_Witness == Parsed /\ toks = Sample_FnXY /\ parser.errors = <<>>

-----------------------------------------------------------------------------
(* Further claims on the lexer *)

RECURSIVE Literals(_, _)
\* the literals of the tokens of ts from i on, concatenated
Literals(ts, i) ==
    IF i > Len(ts) THEN <<>> ELSE ts[i].Literal \o Literals(ts, i + 1)

RECURSIVE StripWhiteSpace(_, _)
\* the bytes of s from i on that are no whitespace
StripWhiteSpace(s, i) ==
    IF i > Len(s) THEN <<>>
    ELSE IF isWhiteSpace(s[i]) THEN StripWhiteSpace(s, i + 1)
    ELSE <<s[i]>> \o StripWhiteSpace(s, i + 1)

\* the part of the input the cursor has passed
Consumed ==
    SubSeq(lexer.input, 1,
           IF lexer.position < len(lexer.input)
           THEN lexer.position ELSE len(lexer.input))

\* the source holds no NUL byte
NoNUL(s) == \A i \in 1..Len(s) : s[i] # 0

====
